---- MODULE Spec2Model ----
(***************************************************************************)
(* Model of the tool generation endpoints (backend/src/routes/generate.ts),*)
(* the tool generator service (services/toolGenerator.ts), the AI pipeline *)
(* (services/ai/pipeline.ts) and the QA gate (services/ai/agents/qa.ts).   *)
(*                                                                         *)
(* Every step of a request handler runs from one `await` to the next: the  *)
(* JavaScript event loop interleaves handlers only at those points.        *)
(* JobStatus.SENT is the code's stand-in for PROCESSING.                   *)
(***************************************************************************)
EXTENDS Integers, Sequences, FiniteSets, TLC

\* ---------------------------------------------------------------- bounds
NumReq == 2
MaxAttempts == 3
SysAttempts == 2
MaxBoss == 1

\* ------------------------------------------------------ program constants
PassThreshold == 85
CriticalFloor == 60

Procs == 1..NumReq
JobIds == {"j1"}
RequestIds == {"j1", "ghost"}

Criteria == {"forces_decision", "zero_instructions", "easy_first_steps",
             "instant_feedback", "gamification", "visible_results",
             "commitment_capture", "fast_track_dna"}

\* ------------------------------------------------------------ job records
\* A Job keeps the fields the generation endpoints read back: status,
\* tool_html and failure_reason. tool_id, qa_status, qa_report, revision_count
\* and callback_received_at are written along with tool_html and never read.
NoHtml == <<>>
NoJob == [status |-> "NONE", tool_html |-> NoHtml, failure_reason |-> ""]
DraftJob == [status |-> "DRAFT", tool_html |-> NoHtml, failure_reason |-> ""]

\* ------------------------------------------------------ QA agent (qa.ts)
AllAt(v) == [c \in Criteria |-> v]
OneAt(c0, v, rest) == [c \in Criteria |-> IF c = c0 THEN v ELSE rest]

\* Raw answers of the QA model: json = FALSE is text JSON.parse rejects.
RawQA(json, res, score, crit) ==
  [json |-> json, result |-> res, score |-> score, criteria_scores |-> crit]
QAResponses ==
  { RawQA(TRUE, "PASS", 90, AllAt(90)),
    RawQA(TRUE, "PASS", 90, OneAt("gamification", 55, 95)),
    RawQA(TRUE, "FAIL", 84, AllAt(84)),
    RawQA(TRUE, "FAIL", 85, OneAt("fast_track_dna", 59, 90)),
    RawQA(TRUE, "FAIL", 85, AllAt(60)),
    RawQA(TRUE, "MAYBE", 85, OneAt("visible_results", 60, 100)),
    RawQA(TRUE, "FAIL", 0, AllAt(0)),
    RawQA(TRUE, "", 70, AllAt(70)),
    RawQA(FALSE, "", 0, AllAt(0)) }
QAResponsesSmall ==
  { RawQA(TRUE, "PASS", 90, AllAt(90)),
    RawQA(TRUE, "FAIL", 84, AllAt(84)),
    RawQA(FALSE, "", 0, AllAt(0)) }

NoQA == [result |-> "", score |-> -1, criteria_scores |-> <<>>]

\* runQA, qa.ts:166-196: parse, validate the structure, normalise result.
QAParses(raw) ==
  /\ raw.json
  /\ ~(raw.result = "" \/ raw.score = 0)
runQA(raw) ==
  [result |-> IF raw.result # "PASS" /\ raw.result # "FAIL"
              THEN (IF raw.score >= 85 THEN "PASS" ELSE "FAIL")
              ELSE raw.result,
   score |-> raw.score,
   criteria_scores |-> raw.criteria_scores]

meetsPassThreshold_overallOnly(r) == r.score >= PassThreshold

\* meetsPassThreshold, qa.ts:202-211
meetsPassThreshold(r) ==
  IF r.score < PassThreshold THEN FALSE
  ELSE IF \E c \in DOMAIN r.criteria_scores : r.criteria_scores[c] < CriticalFloor
       THEN FALSE
       ELSE TRUE

\* --------------------------------------------------------------- variables
VARIABLES
  jobs,            \* jobStore: job id -> Job
  MAX_QA_RETRIES,  \* pipeline.ts:17
  aiConfigured,    \* checkAIConfiguration().valid
  qaInputs,        \* the answers the QA model may give in this environment
  kind,            \* kind[p]: "none" | "post" | "stream" | "pipe" | "revise"
  reqId,           \* req.params.id
  pc,              \* position of handler p
  job,             \* the handler's local `job`
  http,            \* HTTP status sent (0: none yet)
  events,          \* SSE events written / progress events given to the sink
  closed,          \* number of res.end() calls
  run,             \* locals of runToolPipeline
  result,          \* GenerateResult / PipelineResult once the run returned
  pending,         \* result of the transitionJob call being awaited
  bossCount,       \* number of boss transitions applied
  aux,             \* history: what the handler did (for the properties)
  produced,        \* stages passed to progress(), in call order (console log)
  gen              \* locals and position of runToolPipelineStreaming

vars == <<jobs, MAX_QA_RETRIES, aiConfigured, qaInputs, kind, reqId, pc, job,
          http, events, closed, run, result, pending, bossCount, aux,
          produced, gen>>

envVars == <<MAX_QA_RETRIES, aiConfigured, qaInputs>>

NoRun == [toolHtml |-> NoHtml, qaResult |-> NoQA, passed |-> FALSE,
          attempt |-> 0, revisionCount |-> 0, revisionHistory |-> <<>>,
          calls |-> <<>>, validated |-> <<>>, directive |-> "",
          evaluated |-> NoHtml]
NoResult == [done |-> FALSE, success |-> FALSE, toolHtml |-> NoHtml,
             qaReport |-> NoQA, revisionCount |-> -1,
             revisionHistory |-> <<>>, error |-> ""]
NoPending == [success |-> FALSE, job |-> NoJob]
NoAux == [ranGenerate |-> FALSE, movedToProcessing |-> FALSE,
          bossDuring |-> FALSE, rendered |-> FALSE, current_status |-> "",
          instructions |-> ""]

Progress(stage) == [name |-> "progress", stage |-> stage, error |-> ""]
SSE(name, err) == [name |-> name, stage |-> "", error |-> err]

NoGen == [pc |-> "none", lastIndex |-> 0, yielded |-> <<>>]

StagePcs == {"secretary", "builder", "template", "qa", "feedback"}
RunPcs == {"retrieve", "extract"} \cup StagePcs


\* ------------------------------------- state machine and job store (spec)
\* Transition legality table, spec section 4.2.
TransitionTable ==
  { <<"DRAFT", "PROCESSING", "SYSTEM">>,
    <<"PROCESSING", "READY_FOR_REVIEW", "SYSTEM">>,
    <<"PROCESSING", "FACTORY_FAILED", "SYSTEM">>,
    <<"READY_FOR_REVIEW", "APPROVED", "BOSS">>,
    <<"READY_FOR_REVIEW", "PROCESSING", "BOSS">>,
    <<"READY_FOR_REVIEW", "REJECTED", "BOSS">>,
    <<"FACTORY_FAILED", "PROCESSING", "BOSS">>,
    <<"FACTORY_FAILED", "PROCESSING", "SYSTEM">> }

\* transitionJob(job, to, actor): a pure validation of the job it is given.
transitionJob(j, to, actor) ==
  IF <<j.status, to, actor>> \in TransitionTable
  THEN [success |-> TRUE, job |-> [j EXCEPT !.status = to]]
  ELSE [success |-> FALSE, job |-> j]

getJob(id) == IF id \in DOMAIN jobs THEN jobs[id] ELSE NoJob
updateJob(id, j) == [jobs EXCEPT ![id] = j]

\* --------------------------------------------- pipeline.ts, toolGenerator
\* progress(): forwards to onProgress when the caller gave one
\* (generateToolAsync gives none).
Emit(p, stages) ==
  IF kind[p] = "post" THEN events[p]
  ELSE events[p] \o [i \in 1..Len(stages) |-> Progress(stages[i])]

\* the `progress` helper, pipeline.ts:91-96: each call logs the stage and
\* hands the event to onProgress
progress(p, stages) ==
  /\ events' = [events EXCEPT ![p] = Emit(p, stages)]
  /\ produced' = [produced EXCEPT ![p] = @ \o stages]

\* catch block of runToolPipeline, pipeline.ts:209-219
PipelineError(r, err) ==
  [done |-> TRUE, success |-> FALSE, toolHtml |-> NoHtml, qaReport |-> NoQA,
   revisionCount |-> r.revisionCount, revisionHistory |-> r.revisionHistory,
   error |-> err]
PipelineReturn_countsRevisions(r) ==
  [done |-> TRUE, success |-> r.passed, toolHtml |-> r.toolHtml,
   qaReport |-> r.qaResult, revisionCount |-> r.revisionCount - 1,
   revisionHistory |-> r.revisionHistory,
   error |-> IF r.passed THEN "" ELSE "QA_EXHAUSTED"]

\* the two result objects of runToolPipeline, pipeline.ts:176-207
PipelineReturn(r) ==
  [done |-> TRUE, success |-> r.passed, toolHtml |-> r.toolHtml,
   qaReport |-> r.qaResult, revisionCount |-> r.revisionCount,
   revisionHistory |-> r.revisionHistory,
   error |-> IF r.passed THEN "" ELSE "QA_EXHAUSTED"]
\* early returns of generateTool, toolGenerator.ts:72-109
EarlyFailure(code) ==
  [done |-> TRUE, success |-> FALSE, toolHtml |-> NoHtml, qaReport |-> NoQA,
   revisionCount |-> -1, revisionHistory |-> <<>>, error |-> code]
\* generateTool step 4, toolGenerator.ts:134-172
generateTool(pr) ==
  IF pr.success THEN pr
  ELSE [pr EXCEPT !.error = IF pr.error = "" THEN "QA_FAILED" ELSE pr.error]

\* generate.ts:172-185 (stream) and 267-281 (generateToolAsync): build the
\* updated job from the handler's local job and ask for the final transition.
FinalTransition(k, j, g) ==
  LET updatedJob ==
        [j EXCEPT !.tool_html = g.toolHtml,
                  !.failure_reason = IF k = "post"
                                     THEN (IF g.success THEN "" ELSE g.error)
                                     ELSE j.failure_reason]
      finalStatus == IF g.success THEN "READY_FOR_REVIEW" ELSE "FACTORY_FAILED"
  IN transitionJob(updatedJob, finalStatus, "SYSTEM")

\* The run of p returned pr: a bare pipeline call keeps it, a handler maps it
\* through generateTool and calls transitionJob, whose result it then awaits.
CompleteWith(p, k, j, pr) ==
  /\ result' = [result EXCEPT ![p] =
                  IF k = "pipe" THEN pr ELSE generateTool(pr)]
  /\ pc' = [pc EXCEPT ![p] = IF k = "pipe" THEN "returned" ELSE "final"]
  /\ pending' = [pending EXCEPT ![p] =
                  IF k = "pipe" THEN NoPending
                  ELSE FinalTransition(k, j, generateTool(pr))]
Complete(p, pr) == CompleteWith(p, kind[p], job[p], pr)

LoopContinues_oneMore(attempt) == attempt <= MAX_QA_RETRIES + 1

\* `attempt <= MAX_QA_RETRIES`, pipeline.ts:132
LoopContinues(attempt) == attempt <= MAX_QA_RETRIES
AttemptsRemain_inclusive(attempt) == attempt <= MAX_QA_RETRIES

\* `attempt < MAX_QA_RETRIES`, pipeline.ts:163
AttemptsRemain(attempt) == attempt < MAX_QA_RETRIES

\* a stage is called; runQA is given the current toolHtml, pipeline.ts:140
Called(r, stage) ==
  [r EXCEPT !.calls = Append(r.calls, stage),
            !.evaluated = IF stage = "qa" THEN r.toolHtml ELSE @]

\* runToolPipeline up to its first await, pipeline.ts:87-109
PipelineEntry(p) ==
  IF aiConfigured
  THEN /\ progress(p, <<"initializing", "secretary">>)
       /\ run' = [run EXCEPT ![p] = Called(NoRun, "secretary")]
       /\ pc' = [pc EXCEPT ![p] = "secretary"]
       /\ UNCHANGED <<result, pending>>
  ELSE /\ progress(p, <<"initializing", "failed">>)
       /\ run' = [run EXCEPT ![p] = NoRun]
       /\ Complete(p, PipelineError(NoRun, "err:config"))

\* A direct call of runToolPipeline(input, onProgress).
PipeCall(p) ==
  /\ kind[p] = "pipe" /\ pc[p] = "call"
  /\ PipelineEntry(p)
  /\ UNCHANGED <<jobs, envVars, gen, kind, reqId, job, http, closed, bossCount, aux>>

Caught_silent(p, err) ==
  /\ progress(p, <<>>)
  /\ run' = run
  /\ Complete(p, PipelineError(run[p], err))

\* A stage threw: the catch block reports and returns.
Caught(p, err) ==
  /\ progress(p, <<"failed">>)
  /\ run' = run
  /\ Complete(p, PipelineError(run[p], err))

\* runSecretary returned or threw, pipeline.ts:109-116
Secretary(p) ==
  /\ pc[p] = "secretary"
  /\ \E ok \in BOOLEAN :
       IF ok
       THEN /\ progress(p, <<"secretary", "builder">>)
            /\ run' = [run EXCEPT ![p] = Called(@, "builder")]
            /\ pc' = [pc EXCEPT ![p] = "builder"]
            /\ UNCHANGED <<result, pending>>
       ELSE Caught(p, "err:secretary")
  /\ UNCHANGED <<jobs, envVars, gen, kind, reqId, job, http, closed, bossCount, aux>>

\* runBuilder returned or threw, pipeline.ts:116-124
Builder(p) ==
  /\ pc[p] = "builder"
  /\ \E ok \in BOOLEAN :
       IF ok
       THEN /\ progress(p, <<"builder", "template">>)
            /\ run' = [run EXCEPT ![p] = Called(@, "template")]
            /\ pc' = [pc EXCEPT ![p] = "template"]
            /\ UNCHANGED <<result, pending>>
       ELSE Caught(p, "err:builder")
  /\ UNCHANGED <<jobs, envVars, gen, kind, reqId, job, http, closed, bossCount, aux>>

\* runTemplateDecider returned or threw; the loop is entered, pipeline.ts:124-140
Template(p) ==
  /\ pc[p] = "template"
  /\ \E ok \in BOOLEAN :
       IF ~ok
       THEN Caught(p, "err:template") /\ aux' = aux
       ELSE /\ aux' = [aux EXCEPT ![p].rendered = TRUE]
            /\ IF LoopContinues(1)
               THEN /\ progress(p, <<"template", "qa">>)
                    /\ run' = [run EXCEPT ![p] =
                                 Called([@ EXCEPT !.toolHtml = <<p, 0>>,
                                                  !.attempt = 1,
                                                  !.revisionCount = 1], "qa")]
                    /\ pc' = [pc EXCEPT ![p] = "qa"]
                    /\ UNCHANGED <<result, pending>>
               ELSE \* no iteration: qaResult!.score throws a TypeError
                    /\ progress(p, <<"template", "failed">>)
                    /\ run' = [run EXCEPT ![p] = [@ EXCEPT !.toolHtml = <<p, 0>>,
                                                           !.attempt = 1]]
                    /\ Complete(p, PipelineError(run[p], "err:noqa"))
  /\ UNCHANGED <<jobs, envVars, gen, kind, reqId, job, http, closed, bossCount>>

\* The loop goes round: the next iteration calls runQA, or the loop is left
\* and the result is built, pipeline.ts:132-140, 175-207
NextIteration(p, r, emitted) ==
  IF LoopContinues(r.attempt)
  THEN /\ progress(p, emitted \o <<"qa">>)
       /\ run' = [run EXCEPT ![p] =
                    Called([r EXCEPT !.revisionCount = r.attempt], "qa")]
       /\ pc' = [pc EXCEPT ![p] = "qa"]
       /\ UNCHANGED <<result, pending>>
  ELSE /\ progress(p, emitted \o <<"failed">>)
       /\ run' = [run EXCEPT ![p] = r]
       /\ Complete(p, PipelineReturn(r))

\* runQA returned or threw; gate, pipeline.ts:140-207
QA(p) ==
  /\ pc[p] = "qa"
  /\ \E raw \in qaInputs : \E up \in BOOLEAN :
       IF ~up \/ ~QAParses(raw)
       THEN Caught(p, "err:qa")
       ELSE LET q == runQA(raw)
                a == run[p].attempt
                r1 == [run[p] EXCEPT
                         !.qaResult = q,
                         !.revisionHistory =
                            Append(@, [attempt |-> a, score |-> q.score,
                                       passed |-> (q.result = "PASS")]),
                         !.validated = Append(@, q)]
            IN IF meetsPassThreshold(q)
               THEN /\ progress(p, <<"qa", "complete">>)
                    /\ run' = [run EXCEPT ![p] = [r1 EXCEPT !.passed = TRUE]]
                    /\ Complete(p, PipelineReturn([r1 EXCEPT !.passed = TRUE]))
               ELSE IF AttemptsRemain(a)
               THEN /\ progress(p, <<"qa", "feedback">>)
                    /\ run' = [run EXCEPT ![p] = Called(r1, "feedback")]
                    /\ pc' = [pc EXCEPT ![p] = "feedback"]
                    /\ UNCHANGED <<result, pending>>
               ELSE NextIteration(p, [r1 EXCEPT !.attempt = a + 1], <<"qa">>)
  /\ UNCHANGED <<jobs, envVars, gen, kind, reqId, job, http, closed, bossCount, aux>>

Feedback_discardsOutput(p) ==
  /\ pc[p] = "feedback"
  /\ \E ok \in BOOLEAN :
       IF ok
       THEN NextIteration(p, [run[p] EXCEPT !.attempt = @ + 1], <<"feedback">>)
       ELSE Caught(p, "err:feedback")
  /\ UNCHANGED <<jobs, envVars, gen, kind, reqId, job, http, closed, bossCount, aux>>

\* runFeedbackApplier returned or threw, pipeline.ts:169-173
Feedback(p) ==
  /\ pc[p] = "feedback"
  /\ \E ok \in BOOLEAN :
       IF ok
       THEN NextIteration(p, [run[p] EXCEPT !.toolHtml = <<p, run[p].attempt>>,
                                            !.attempt = @ + 1],
                          <<"feedback">>)
       ELSE Caught(p, "err:feedback")
  /\ UNCHANGED <<jobs, envVars, gen, kind, reqId, job, http, closed, bossCount, aux>>

\* ------------------------------------------ the pipeline called on its own
InitCommon ==
  /\ jobs = [j \in JobIds |-> DraftJob]
  /\ reqId = [p \in Procs |-> "j1"]
  /\ job = [p \in Procs |-> NoJob]
  /\ http = [p \in Procs |-> 0]
  /\ events = [p \in Procs |-> <<>>]
  /\ closed = [p \in Procs |-> 0]
  /\ run = [p \in Procs |-> NoRun]
  /\ result = [p \in Procs |-> NoResult]
  /\ pending = [p \in Procs |-> NoPending]
  /\ bossCount = 0
  /\ aux = [p \in Procs |-> NoAux]
  /\ produced = [p \in Procs |-> <<>>]

InitPipe ==
  /\ InitCommon
  /\ gen = [p \in Procs |-> NoGen]
  /\ MAX_QA_RETRIES \in 0..MaxAttempts
  /\ aiConfigured \in BOOLEAN
  /\ qaInputs = QAResponses
  /\ kind = [p \in Procs |-> IF p = 1 THEN "pipe" ELSE "none"]
  /\ pc = [p \in Procs |-> IF p = 1 THEN "call" ELSE "idle"]

NextPipe ==
  \E p \in Procs :
    \/ PipeCall(p)
    \/ Secretary(p)
    \/ Builder(p)
    \/ Template(p)
    \/ QA(p)
    \/ Feedback(p)

SpecPipe == InitPipe /\ [][NextPipe]_vars


\* ----------------------------------------------------- routes/generate.ts
Arrives(p) ==
  /\ pc[p] = "idle"
  /\ \A q \in Procs : q < p => pc[q] # "idle"

Respond(p, status) ==
  /\ http' = [http EXCEPT ![p] = status]
  /\ pc' = [pc EXCEPT ![p] = "done"]

\* generateTool(job, onProgress) up to its first await, toolGenerator.ts:66-86
GenerateEntry(p, k, j) ==
  IF aiConfigured
  THEN /\ pc' = [pc EXCEPT ![p] = "retrieve"]
       /\ UNCHANGED <<result, pending>>
  ELSE CompleteWith(p, k, j, EarlyFailure("AI_NOT_CONFIGURED"))

LateEvent_noReason(j) ==
  IF j.status = "READY_FOR_REVIEW" THEN SSE("complete", "")
  ELSE SSE("failed", "Tool generation failed")

\* the synthetic terminal event of a late subscription, generate.ts:117-137
LateEvent(j) ==
  IF j.status = "READY_FOR_REVIEW" THEN SSE("complete", "")
  ELSE SSE("failed", IF j.failure_reason # "" THEN j.failure_reason
                     ELSE "Tool generation failed")

FinalEvent_asProgress(g) ==
  Progress(IF g.success THEN "complete" ELSE "failed")

\* the final event of a stream that ran the generator, generate.ts:191-213
FinalEvent(g) ==
  IF g.success THEN SSE("complete", "") ELSE SSE("failed", g.error)

ConflictBody_expected(j) == "DRAFT"

\* the `current_status` field of the 409 body, generate.ts:41-47
ConflictBody(j) == j.status

\* POST /:id/generate up to `await transitionJob`, generate.ts:28-63
PostStart(p, id) ==
  /\ Arrives(p)
  /\ kind' = [kind EXCEPT ![p] = "post"]
  /\ reqId' = [reqId EXCEPT ![p] = id]
  /\ LET j == getJob(id) IN
       IF j = NoJob THEN
         Respond(p, 404) /\ UNCHANGED <<job, pending, aux>>
       ELSE IF j.status # "DRAFT" THEN
         /\ Respond(p, 409)
         /\ aux' = [aux EXCEPT ![p].current_status = ConflictBody(j)]
         /\ UNCHANGED <<job, pending>>
       ELSE IF ~aiConfigured THEN
         Respond(p, 503) /\ UNCHANGED <<job, pending, aux>>
       ELSE
         /\ job' = [job EXCEPT ![p] = j]
         /\ pending' = [pending EXCEPT ![p] = transitionJob(j, "PROCESSING", "SYSTEM")]
         /\ pc' = [pc EXCEPT ![p] = "post_transition"]
         /\ UNCHANGED <<http, aux>>
  /\ UNCHANGED <<jobs, envVars, gen, events, produced, closed, run, result, bossCount>>

PostCommit_respondsFirst(p) ==
  /\ pc[p] = "post_transition"
  /\ IF ~pending[p].success
     THEN Respond(p, 500) /\ UNCHANGED <<jobs, job, result, pending, aux>>
     ELSE /\ jobs' = jobs
          /\ http' = [http EXCEPT ![p] = 202]
          /\ job' = [job EXCEPT ![p] = pending[p].job]
          /\ aux' = [aux EXCEPT ![p].movedToProcessing = TRUE,
                                ![p].ranGenerate = TRUE]
          /\ GenerateEntry(p, "post", pending[p].job)
  /\ UNCHANGED <<envVars, gen, kind, reqId, events, produced, closed, run, bossCount>>

\* POST /:id/generate after the await, and generateToolAsync up to its first
\* await, generate.ts:65-86, 255-265
PostCommit(p) ==
  /\ pc[p] = "post_transition"
  /\ IF ~pending[p].success
     THEN Respond(p, 500) /\ UNCHANGED <<jobs, job, result, pending, aux>>
     ELSE /\ jobs' = updateJob(reqId[p], pending[p].job)
          /\ http' = [http EXCEPT ![p] = 202]
          /\ job' = [job EXCEPT ![p] = pending[p].job]
          /\ aux' = [aux EXCEPT ![p].movedToProcessing = TRUE,
                                ![p].ranGenerate = TRUE]
          /\ GenerateEntry(p, "post", pending[p].job)
  /\ UNCHANGED <<envVars, gen, kind, reqId, events, produced, closed, run, bossCount>>

\* generate.ts:153-170: `connected`, then generateTool is called
StreamRun(p, j) ==
  /\ events' = [events EXCEPT ![p] = <<SSE("connected", "")>>]
  /\ http' = [http EXCEPT ![p] = 200]
  /\ GenerateEntry(p, "stream", j)

\* GET /:id/generate/stream up to its first await, generate.ts:93-170
StreamStart(p, id) ==
  /\ Arrives(p)
  /\ kind' = [kind EXCEPT ![p] = "stream"]
  /\ reqId' = [reqId EXCEPT ![p] = id]
  /\ LET j == getJob(id) IN
       IF j = NoJob THEN
         /\ Respond(p, 404)
         /\ UNCHANGED <<job, pending, events, closed, result, aux>>
       ELSE IF j.status = "READY_FOR_REVIEW" \/ j.status = "FACTORY_FAILED" THEN
         /\ Respond(p, 200)
         /\ events' = [events EXCEPT ![p] = <<LateEvent(j)>>]
         /\ closed' = [closed EXCEPT ![p] = @ + 1]
         /\ UNCHANGED <<job, pending, result, aux>>
       ELSE IF j.status = "DRAFT" THEN
         /\ job' = [job EXCEPT ![p] = j]
         /\ pending' = [pending EXCEPT ![p] = transitionJob(j, "PROCESSING", "SYSTEM")]
         /\ pc' = [pc EXCEPT ![p] = "stream_transition"]
         /\ UNCHANGED <<http, events, closed, result, aux>>
       ELSE
         /\ job' = [job EXCEPT ![p] = j]
         /\ StreamRun(p, j)
         /\ aux' = [aux EXCEPT ![p].ranGenerate = TRUE]
         /\ UNCHANGED closed
  /\ UNCHANGED <<jobs, envVars, gen, run, bossCount, produced>>

\* the stream handler after `await transitionJob`, generate.ts:148-170
StreamCommit(p) ==
  /\ pc[p] = "stream_transition"
  /\ jobs' = IF pending[p].success THEN updateJob(reqId[p], pending[p].job)
             ELSE jobs
  /\ aux' = [aux EXCEPT ![p].movedToProcessing = pending[p].success,
                        ![p].ranGenerate = TRUE]
  /\ StreamRun(p, job[p])
  /\ UNCHANGED <<envVars, gen, kind, reqId, job, closed, run, bossCount, produced>>

\* retrieveFile resolved or rejected, toolGenerator.ts:84-100
Retrieve(p) ==
  /\ pc[p] = "retrieve"
  /\ \E ok \in BOOLEAN :
       IF ok THEN /\ pc' = [pc EXCEPT ![p] = "extract"]
                  /\ UNCHANGED <<result, pending>>
       ELSE Complete(p, EarlyFailure("FILE_NOT_FOUND"))
  /\ UNCHANGED <<jobs, envVars, gen, kind, reqId, job, http, events, produced, closed, run,
                 bossCount, aux>>

\* extractText resolved or rejected; runToolPipeline is called,
\* toolGenerator.ts:98-123
Extract(p) ==
  /\ pc[p] = "extract"
  /\ \E ok \in BOOLEAN :
       IF ok THEN PipelineEntry(p)
       ELSE Complete(p, EarlyFailure("INVALID_FILE_TYPE")) /\ UNCHANGED <<events, produced, run>>
  /\ UNCHANGED <<jobs, envVars, gen, kind, reqId, job, http, closed, bossCount, aux>>

\* the final transition resolved: generate.ts:187-224 and 283-286; the
\* handler returns and its locals are gone
Final(p) ==
  /\ pc[p] = "final"
  /\ jobs' = IF pending[p].success THEN updateJob(reqId[p], pending[p].job)
             ELSE jobs
  /\ pc' = [pc EXCEPT ![p] = "done"]
  /\ IF kind[p] = "stream"
     THEN /\ events' = [events EXCEPT ![p] =
                 Append(@, FinalEvent(result[p]))]
          /\ closed' = [closed EXCEPT ![p] = @ + 1]
     ELSE UNCHANGED <<events, closed>>
  /\ job' = [job EXCEPT ![p] = NoJob]
  /\ run' = [run EXCEPT ![p] = NoRun]
  /\ produced' = [produced EXCEPT ![p] = <<>>]
  /\ result' = [result EXCEPT ![p] = NoResult]
  /\ pending' = [pending EXCEPT ![p] = NoPending]
  /\ aux' = [aux EXCEPT ![p].rendered = FALSE, ![p].bossDuring = FALSE]
  /\ UNCHANGED <<envVars, gen, kind, reqId, http, bossCount>>

\* ------------------------------------------------- the approver (spec 4.2)
InFlight(p) == pc[p] \in RunPcs

BossTargets == {"APPROVED", "REJECTED", "PROCESSING"}

\* A BOSS transition of the stored job, applied when the table allows it.
BossTransition(id, to) ==
  /\ bossCount < MaxBoss
  /\ id \in DOMAIN jobs
  /\ LET r == transitionJob(getJob(id), to, "BOSS") IN
       /\ r.success
       /\ jobs' = updateJob(id, r.job)
  /\ bossCount' = bossCount + 1
  /\ aux' = [p \in Procs |->
               IF InFlight(p) /\ reqId[p] = id
               THEN [aux[p] EXCEPT !.bossDuring = TRUE] ELSE aux[p]]
  /\ UNCHANGED <<envVars, gen, kind, reqId, pc, job, http, events, produced, closed, run,
                 result, pending>>

\* ------------------------------------------------------------ the system
Init ==
  /\ InitCommon
  /\ gen = [p \in Procs |-> NoGen]
  /\ MAX_QA_RETRIES = SysAttempts
  /\ aiConfigured \in BOOLEAN
  /\ qaInputs = QAResponsesSmall
  /\ kind = [p \in Procs |-> "none"]
  /\ pc = [p \in Procs |-> "idle"]

Next ==
  \/ \E p \in Procs : \E id \in RequestIds : PostStart(p, id)
  \/ \E p \in Procs : PostCommit(p)
  \/ \E p \in Procs : \E id \in RequestIds : StreamStart(p, id)
  \/ \E p \in Procs : StreamCommit(p)
  \/ \E p \in Procs : Retrieve(p)
  \/ \E p \in Procs : Extract(p)
  \/ \E p \in Procs : Secretary(p)
  \/ \E p \in Procs : Builder(p)
  \/ \E p \in Procs : Template(p)
  \/ \E p \in Procs : QA(p)
  \/ \E p \in Procs : Feedback(p)
  \/ \E p \in Procs : Final(p)
  \/ \E id \in JobIds : \E to \in BossTargets : BossTransition(id, to)

Spec == Init /\ [][Next]_vars


\* The handlers' own steps are taken once enabled (the event loop runs a
\* continuation whose promise has resolved; transitionJob, retrieveFile and
\* extractText are local). The provider calls behind the five stages are
\* awaited with no timer (callAI, qa.ts:405-427; fetch and messages.create
\* are given none), so nothing obliges them to answer.
SpecLive ==
  /\ Spec
  /\ \A p \in Procs :
       /\ WF_vars(PostCommit(p))
       /\ WF_vars(StreamCommit(p))
       /\ WF_vars(Retrieve(p))
       /\ WF_vars(Extract(p))
       /\ WF_vars(Final(p))


\* ------------------------------------ runToolPipelineStreaming, the stream
NextYield_newest(g, progressEvents) == progressEvents[Len(progressEvents)]

\* `progressEvents[lastIndex]` (0-based), pipeline.ts:245 and 255
NextYield(g, progressEvents) == progressEvents[g.lastIndex + 1]

\* runToolPipelineStreaming up to its first yield or sleep: runToolPipeline is
\* called with a callback that pushes to progressEvents, pipeline.ts:229-242
StreamingCall(p) ==
  /\ gen[p].pc = "start"
  /\ kind[p] = "pipe" /\ pc[p] = "call"
  /\ PipelineEntry(p)
  /\ gen' = [gen EXCEPT ![p].pc = "yielding"]
  /\ UNCHANGED <<jobs, envVars, kind, reqId, job, http, closed, bossCount, aux>>

\* `yield progressEvents[lastIndex]; lastIndex++`, pipeline.ts:244-247, 254-257
StreamingYield(p) ==
  /\ gen[p].pc \in {"yielding", "draining"}
  /\ gen[p].lastIndex < Len(events[p])
  /\ gen' = [gen EXCEPT ![p].yielded = Append(@, NextYield(gen[p], events[p])),
                        ![p].lastIndex = @ + 1]
  /\ UNCHANGED <<jobs, envVars, kind, reqId, pc, job, http, events, produced,
                 closed, run, result, pending, bossCount, aux>>

\* nothing new to yield: `await new Promise(r => setTimeout(r, 100))`,
\* pipeline.ts:249-250
StreamingSleep(p) ==
  /\ gen[p].pc = "yielding"
  /\ gen[p].lastIndex = Len(events[p])
  /\ gen' = [gen EXCEPT ![p].pc = "sleeping"]
  /\ UNCHANGED <<jobs, envVars, kind, reqId, pc, job, http, events, produced,
                 closed, run, result, pending, bossCount, aux>>

StreamingWake_returnsAtOnce(p) ==
  /\ gen[p].pc = "sleeping"
  /\ gen' = [gen EXCEPT ![p].pc = IF result[p].done THEN "returned"
                                  ELSE "yielding"]
  /\ UNCHANGED <<jobs, envVars, kind, reqId, pc, job, http, events, produced,
                 closed, run, result, pending, bossCount, aux>>

\* the timer fired: `while (!finalResult)` is tested again, pipeline.ts:242
StreamingWake(p) ==
  /\ gen[p].pc = "sleeping"
  /\ gen' = [gen EXCEPT ![p].pc = IF result[p].done THEN "draining"
                                  ELSE "yielding"]
  /\ UNCHANGED <<jobs, envVars, kind, reqId, pc, job, http, events, produced,
                 closed, run, result, pending, bossCount, aux>>

\* `return finalResult`, pipeline.ts:259
StreamingReturn(p) ==
  /\ gen[p].pc = "draining"
  /\ gen[p].lastIndex = Len(events[p])
  /\ gen' = [gen EXCEPT ![p].pc = "returned"]
  /\ UNCHANGED <<jobs, envVars, kind, reqId, pc, job, http, events, produced,
                 closed, run, result, pending, bossCount, aux>>

\* Either the generator is called on its own, or the server takes progress
\* subscriptions.
InitStreaming ==
  /\ InitCommon
  /\ MAX_QA_RETRIES = SysAttempts
  /\ aiConfigured \in BOOLEAN
  /\ qaInputs = QAResponsesSmall
  /\ \/ /\ kind = [p \in Procs |-> IF p = 1 THEN "pipe" ELSE "none"]
        /\ pc = [p \in Procs |-> IF p = 1 THEN "call" ELSE "done"]
        /\ gen = [p \in Procs |-> IF p = 1 THEN [NoGen EXCEPT !.pc = "start"]
                                  ELSE NoGen]
     \/ /\ kind = [p \in Procs |-> "none"]
        /\ pc = [p \in Procs |-> "idle"]
        /\ gen = [p \in Procs |-> NoGen]

NextStreaming ==
  \/ \E p \in Procs : StreamingCall(p)
  \/ \E p \in Procs : StreamingYield(p)
  \/ \E p \in Procs : StreamingSleep(p)
  \/ \E p \in Procs : StreamingWake(p)
  \/ \E p \in Procs : StreamingReturn(p)
  \/ \E p \in Procs : \E id \in RequestIds : StreamStart(p, id)
  \/ \E p \in Procs : StreamCommit(p)
  \/ \E p \in Procs : Retrieve(p)
  \/ \E p \in Procs : Extract(p)
  \/ \E p \in Procs : Secretary(p)
  \/ \E p \in Procs : Builder(p)
  \/ \E p \in Procs : Template(p)
  \/ \E p \in Procs : QA(p)
  \/ \E p \in Procs : Feedback(p)
  \/ \E p \in Procs : Final(p)

SpecStreaming == InitStreaming /\ [][NextStreaming]_vars

\* The consumer keeps asking for the next value and the 100 ms timer fires:
\* the generator's own steps are taken when they stay possible. Nothing is
\* assumed about the stage calls of the run it watches.
SpecStreamingLive ==
  /\ SpecStreaming
  /\ \A p \in Procs : /\ WF_vars(StreamingYield(p))
                      /\ WF_vars(StreamingSleep(p))
                      /\ WF_vars(StreamingWake(p))
                      /\ WF_vars(StreamingReturn(p))


\* ------------------------------------------- the revision request (human)
MaxNotes == 2
BossNotes == {<<"note", n>> : n \in 1..MaxNotes}
AIContents == {"html", "fenced html", "text", "fenced text"}
Statuses == {"DRAFT", "PROCESSING", "READY_FOR_REVIEW", "FACTORY_FAILED",
             "APPROVED", "REJECTED"}

BossRevisionCall_validates(r, bossNotes) ==
  Called([Called(r, "feedback") EXCEPT !.directive = bossNotes], "qa")

\* applyBossRevision up to its await: one callAI with the feedback applier's
\* system prompt and the boss notes in the message, feedbackApplier.ts:156-181
BossRevisionCall(r, bossNotes) ==
  [Called(r, "feedback") EXCEPT !.directive = bossNotes]

\* `html.replace(/```html?\n?/g, '')...`, feedbackApplier.ts:183-187
StripFence(content) ==
  CASE content = "fenced html" -> "html"
    [] content = "fenced text" -> "text"
    [] OTHER -> content

\* `startsWith('<!DOCTYPE html>') || startsWith('<html')`, feedbackApplier.ts:189
IsHtml(content) == StripFence(content) = "html"

\* requestRevision(jobId, BOSS, instructions), spec sections 4.3 and 6: legal
\* from READY_FOR_REVIEW only; the BOSS transition to PROCESSING is stored
\* and the single-attempt path calls applyBossRevision.
RequestRevision(p, id, notes) ==
  /\ Arrives(p)
  /\ kind' = [kind EXCEPT ![p] = "revise"]
  /\ reqId' = [reqId EXCEPT ![p] = id]
  /\ aux' = [aux EXCEPT ![p].instructions = notes]
  /\ LET j == getJob(id)
         t == transitionJob(j, "PROCESSING", "BOSS")
     IN IF j.status # "READY_FOR_REVIEW" \/ ~t.success
        THEN /\ Respond(p, 409)
             /\ UNCHANGED <<jobs, run>>
        ELSE /\ jobs' = updateJob(id, t.job)
             /\ http' = [http EXCEPT ![p] = 202]
             /\ run' = [run EXCEPT ![p] =
                          BossRevisionCall([NoRun EXCEPT !.toolHtml = j.tool_html],
                                           notes)]
             /\ pc' = [pc EXCEPT ![p] = "boss_revision"]
  /\ UNCHANGED <<envVars, gen, job, events, produced, closed, result, pending, bossCount>>

\* callAI returned or threw; applyBossRevision returns the html or throws,
\* feedbackApplier.ts:176-195
ApplyBossRevision(p) ==
  /\ pc[p] = "boss_revision"
  /\ \E up \in BOOLEAN : \E content \in AIContents :
       result' = [result EXCEPT ![p] =
                    IF up /\ IsHtml(content)
                    THEN [NoResult EXCEPT !.done = TRUE, !.success = TRUE,
                                          !.toolHtml = <<p, StripFence(content)>>]
                    ELSE [NoResult EXCEPT !.done = TRUE,
                                          !.error = IF up THEN "err:nothtml"
                                                    ELSE "err:feedback"]]
  /\ pc' = [pc EXCEPT ![p] = "revised"]
  /\ UNCHANGED <<jobs, envVars, gen, kind, reqId, job, http, events, produced, closed, run,
                 pending, bossCount, aux>>

\* The revision path's terminal transition of the stored job (spec 4.2).
RevisionFinal(p) ==
  /\ pc[p] = "revised"
  /\ LET j == getJob(reqId[p])
         g == result[p]
         t == transitionJob(
                IF g.success THEN [j EXCEPT !.tool_html = g.toolHtml]
                ELSE [j EXCEPT !.failure_reason = g.error],
                IF g.success THEN "READY_FOR_REVIEW" ELSE "FACTORY_FAILED",
                "SYSTEM")
     IN jobs' = IF t.success THEN updateJob(reqId[p], t.job) ELSE jobs
  /\ pc' = [pc EXCEPT ![p] = "done"]
  /\ UNCHANGED <<envVars, gen, kind, reqId, job, http, events, produced, closed, run, result,
                 pending, bossCount, aux>>

InitRevision ==
  /\ \E st \in Statuses :
       jobs = [j \in JobIds |->
                 [DraftJob EXCEPT
                    !.status = st,
                    !.tool_html = IF st \in {"DRAFT", "PROCESSING"} THEN NoHtml
                                  ELSE <<0, 0>>,
                    !.failure_reason = IF st = "FACTORY_FAILED"
                                       THEN "QA_EXHAUSTED" ELSE ""]]
  /\ reqId = [p \in Procs |-> "j1"]
  /\ job = [p \in Procs |-> NoJob]
  /\ http = [p \in Procs |-> 0]
  /\ events = [p \in Procs |-> <<>>]
  /\ closed = [p \in Procs |-> 0]
  /\ run = [p \in Procs |-> NoRun]
  /\ result = [p \in Procs |-> NoResult]
  /\ pending = [p \in Procs |-> NoPending]
  /\ bossCount = 0
  /\ aux = [p \in Procs |-> NoAux]
  /\ produced = [p \in Procs |-> <<>>]
  /\ gen = [p \in Procs |-> NoGen]
  /\ MAX_QA_RETRIES = SysAttempts
  /\ aiConfigured = TRUE
  /\ qaInputs = QAResponsesSmall
  /\ kind = [p \in Procs |-> "none"]
  /\ pc = [p \in Procs |-> "idle"]

NextRevision ==
  \/ \E p \in Procs : \E id \in JobIds : \E notes \in BossNotes :
       RequestRevision(p, id, notes)
  \/ \E p \in Procs : ApplyBossRevision(p)
  \/ \E p \in Procs : RevisionFinal(p)

SpecRevision == InitRevision /\ [][NextRevision]_vars


\* ================================================================ properties
Count(seq, x) == Cardinality({i \in 1..Len(seq) : seq[i] = x})

StageErrors == {"err:config", "err:secretary", "err:builder", "err:template",
                "err:qa", "err:feedback", "err:noqa"}

\* The pass criterion as the specification words it.
SpecGate(q) ==
  /\ q.score >= 85
  /\ \A c \in Criteria : q.criteria_scores[c] >= 60

Terminals(ev) == {i \in 1..Len(ev) : ev[i].name \in {"complete", "failed"}}

\* The run of p returned from the quality-gate loop with no stage raising.
LoopReturned(p) ==
  /\ result[p].done
  /\ aux[p].rendered
  /\ result[p].error \notin StageErrors

Finishes(p) == pc[p] = "final" /\ pc'[p] = "done"

\* C1: when every request is a startGeneration call for the DRAFT job j1 and
\* all of them have been answered, exactly one was Accepted, exactly one
\* transition to PROCESSING was stored and every other call got Conflict.
C1_ExactlyOneStart ==
  ( /\ aiConfigured
    /\ \A p \in Procs : kind[p] = "post" /\ reqId[p] = "j1" /\ http[p] # 0 )
  => /\ Cardinality({p \in Procs : http[p] = 202}) = 1
     /\ Cardinality({p \in Procs : aux[p].movedToProcessing}) = 1
     /\ Cardinality({p \in Procs : http[p] = 409}) = Cardinality(Procs) - 1

\* C2: for every job id at most one pipeline run is in flight.
C2_AtMostOneRunInFlight ==
  \A id \in JobIds :
    Cardinality({p \in Procs : InFlight(p) /\ reqId[p] = id}) <= 1

\* C3: a run during which the boss changed the stored job does not write the
\* job when it finishes: its terminal transition is rejected as stale.
C3_BossChangeSurvives ==
  [][ \A p \in Procs : (Finishes(p) /\ aux[p].bossDuring) => jobs' = jobs ]_vars

\* C4: a run whose Validate results all fail the gate makes MAX_QA_RETRIES
\* Validate calls with one recorded attempt each, one Revise call fewer, no
\* Revise after the last Validate, and returns a failed result.
C4_ExhaustedLoop ==
  \A p \in Procs :
    ( /\ LoopReturned(p)
      /\ MAX_QA_RETRIES >= 1
      /\ \A i \in DOMAIN run[p].validated : ~SpecGate(run[p].validated[i]) )
    => /\ Count(run[p].calls, "qa") = MAX_QA_RETRIES
       /\ Len(result[p].revisionHistory) = MAX_QA_RETRIES
       /\ Count(run[p].calls, "feedback") = MAX_QA_RETRIES - 1
       /\ run[p].calls[Len(run[p].calls)] = "qa"
       /\ ~result[p].success

C4_Witness ==
  \E p \in Procs :
    /\ LoopReturned(p)
    /\ MAX_QA_RETRIES = 3
    /\ \A i \in DOMAIN run[p].validated : ~SpecGate(run[p].validated[i])
    /\ Count(run[p].calls, "qa") = 3
    /\ Count(run[p].calls, "feedback") = 2

\* C5: a run whose Validate results fail the gate k-1 times and then pass
\* makes k Validate calls and k-1 Revise calls, calls no stage after the
\* passing Validate and returns success with revisionCount = k.
C5_PassOnAttemptK ==
  \A p \in Procs :
    LET v == run[p].validated
        k == Len(v)
    IN ( /\ LoopReturned(p)
         /\ k >= 1
         /\ SpecGate(v[k])
         /\ \A i \in 1..(k - 1) : ~SpecGate(v[i]) )
       => /\ k <= MAX_QA_RETRIES
          /\ Count(run[p].calls, "qa") = k
          /\ Count(run[p].calls, "feedback") = k - 1
          /\ run[p].calls[Len(run[p].calls)] = "qa"
          /\ result[p].success
          /\ result[p].revisionCount = k
          /\ Len(result[p].revisionHistory) = k

C5_Witness ==
  \E p \in Procs :
    /\ LoopReturned(p)
    /\ Len(run[p].validated) = 2
    /\ SpecGate(run[p].validated[2])
    /\ ~SpecGate(run[p].validated[1])
    /\ Count(run[p].calls, "feedback") = 1
    /\ result[p].success
    /\ result[p].revisionCount = 2

\* C6: the loop treats a Validate result as passed exactly when its overall
\* score is >= 85 and every sub-criterion score is >= 60: the run goes on to
\* Revise or exhaustion after a result that misses either condition and
\* returns success only on a result that meets both.
C6_ConjunctiveGate ==
  \A p \in Procs :
    LET v == run[p].validated
        n == Len(v)
    IN /\ \A i \in 1..(n - 1) : ~SpecGate(v[i])
       /\ (n >= 1 /\ pc[p] = "feedback") => ~SpecGate(v[n])
       /\ (n >= 1 /\ LoopReturned(p)) => (result[p].success <=> SpecGate(v[n]))

C6_Witness ==
  \E p \in Procs :
    LET v == run[p].validated
        n == Len(v)
    IN /\ n >= 1
       /\ LoopReturned(p)
       /\ v[n].score = 90
       /\ \E c \in Criteria : v[n].criteria_scores[c] = 55
       /\ ~result[p].success

\* C7: when a run that rendered an artifact finishes in failure (and the boss
\* did not intervene), the job stored right after has status FACTORY_FAILED,
\* the run's last artifact and a non-empty failure reason.
C7_FailedJobKeepsArtifact ==
  [][ \A p \in Procs :
        ( /\ Finishes(p)
          /\ ~result[p].success
          /\ aux[p].rendered
          /\ ~aux[p].bossDuring )
        => /\ jobs'[reqId[p]].status = "FACTORY_FAILED"
           /\ jobs'[reqId[p]].tool_html = run[p].toolHtml
           /\ jobs'[reqId[p]].failure_reason # "" ]_vars

\* C8: when a run whose handler moved the job to PROCESSING and whose stage
\* calls returned finishes (and the boss did not intervene), the stored status is READY_FOR_REVIEW after a
\* success and FACTORY_FAILED after a failure.
C8_RunLeavesProcessing ==
  [][ \A p \in Procs :
        ( /\ Finishes(p)
          /\ aux[p].movedToProcessing
          /\ run[p].calls # <<>>
          /\ ~aux[p].bossDuring )
        => jobs'[reqId[p]].status =
             IF result[p].success THEN "READY_FOR_REVIEW" ELSE "FACTORY_FAILED" ]_vars

\* C9: a subscription to an existing job has sent at most one terminal event,
\* nothing after it, has closed the stream exactly when it sent it, and has
\* sent exactly one once the handler is over.
C9_OneTerminalEvent ==
  \A p \in Procs :
    (kind[p] = "stream" /\ reqId[p] \in DOMAIN jobs) =>
      LET t == Terminals(events[p]) IN
        /\ t \subseteq {Len(events[p])}
        /\ closed[p] = Cardinality(t)
        /\ pc[p] = "done" <=> Cardinality(t) = 1

C9_Witness ==
  \E p \in Procs :
    /\ kind[p] = "stream" /\ pc[p] = "done" /\ reqId[p] \in DOMAIN jobs
    /\ Len(events[p]) > 3
    /\ events[p][Len(events[p])].name = "failed"
    /\ closed[p] = 1

\* C10: a subscription that finds the job FACTORY_FAILED sends one `failed`
\* event with the job's failure reason (the stock text when the job has none)
\* and closes; one that finds it READY_FOR_REVIEW sends one `complete`. The
\* handler is over in that one step: no `connected`, no progress, no stage
\* call, and the store is not written.
C10_LateSubscription ==
  [][ \A p \in Procs : \A id \in JobIds :
        ( /\ pc[p] = "idle" /\ kind'[p] = "stream" /\ reqId'[p] = id
          /\ jobs[id].status \in {"FACTORY_FAILED", "READY_FOR_REVIEW"} )
        => /\ jobs' = jobs
           /\ pc'[p] = "done"
           /\ closed'[p] = 1
           /\ run'[p] = NoRun
           /\ ~aux'[p].ranGenerate
           /\ Len(events'[p]) = 1
           /\ events'[p][1].stage = ""
           /\ IF jobs[id].status = "READY_FOR_REVIEW"
              THEN events'[p][1].name = "complete"
              ELSE /\ events'[p][1].name = "failed"
                   /\ events'[p][1].error # ""
                   /\ jobs[id].failure_reason # ""
                        => events'[p][1].error = jobs[id].failure_reason ]_vars

C10_Witness ==
  \E p \in Procs :
    /\ kind[p] = "stream" /\ pc[p] = "done"
    /\ reqId[p] \in DOMAIN jobs
    /\ jobs[reqId[p]].status = "FACTORY_FAILED"
    /\ jobs[reqId[p]].failure_reason # ""
    /\ events[p] = <<SSE("failed", jobs[reqId[p]].failure_reason)>>
    /\ closed[p] = 1

\* C11: when every request is a progress subscription for the DRAFT job j1
\* and the boss does not act, exactly one of them starts a run: at most one
\* handler ever calls the generator, whatever the interleaving.
C11_OneRunForTwoSubscribers ==
  ( /\ aiConfigured
    /\ bossCount = 0
    /\ \A p \in Procs : kind[p] \in {"stream", "none"} /\ reqId[p] = "j1" )
  => Cardinality({p \in Procs : aux[p].ranGenerate}) <= 1

\* C12: a subscription calls the generator only in a step before which the
\* stored status of its job is DRAFT and no run is in flight for that job.
C12_SubscribeStartsOnlyFromDraft ==
  [][ \A p \in Procs :
        ( /\ aiConfigured
          /\ kind'[p] = "stream"
          /\ ~aux[p].ranGenerate /\ aux'[p].ranGenerate )
        => /\ jobs[reqId'[p]].status = "DRAFT"
           /\ \A q \in Procs : ~(InFlight(q) /\ reqId[q] = reqId'[p]) ]_vars

\* C13: a startGeneration call that finds the job stored as PROCESSING is
\* over in that one step with a 409 whose body names PROCESSING as the
\* current status; the store, every run and every pending transition are as
\* before, and the handler has neither called nor scheduled the generator.
C13_ConflictOnProcessing ==
  [][ \A p \in Procs : \A id \in JobIds :
        ( /\ pc[p] = "idle" /\ kind'[p] = "post" /\ reqId'[p] = id
          /\ jobs[id].status = "PROCESSING" )
        => /\ http'[p] = 409
           /\ aux'[p].current_status = "PROCESSING"
           /\ pc'[p] = "done"
           /\ jobs' = jobs
           /\ run' = run /\ result' = result /\ pending' = pending
           /\ ~aux'[p].ranGenerate /\ ~aux'[p].movedToProcessing ]_vars

C13_Witness ==
  \E p \in Procs : \E q \in Procs :
    /\ kind[p] = "post" /\ http[p] = 409 /\ pc[p] = "done"
    /\ aux[p].current_status = "PROCESSING"
    /\ ~aux[p].ranGenerate
    /\ q # p /\ InFlight(q) /\ reqId[q] = reqId[p]
    /\ reqId[p] \in DOMAIN jobs /\ jobs[reqId[p]].status = "PROCESSING"

\* C14: every step of a generation endpoint that changes the stored status
\* of a job changes it along a SYSTEM row of the transition table, taken
\* from the status that was stored just before the step.
C14_StoredChangesFollowTable ==
  [][ \A id \in JobIds :
        ( /\ bossCount' = bossCount
          /\ jobs'[id].status # jobs[id].status )
        => <<jobs[id].status, jobs'[id].status, "SYSTEM">> \in TransitionTable ]_vars

C16_StartGeneration ==
  [][ \A p \in Procs :
        /\ ( pc[p] = "idle" /\ kind'[p] = "post"
             /\ reqId'[p] \notin DOMAIN jobs )
           => /\ http'[p] = 404 /\ pc'[p] = "done"
              /\ jobs' = jobs
              /\ run' = run /\ result' = result /\ pending' = pending
              /\ ~aux'[p].ranGenerate
        /\ ( kind[p] = "post" /\ http[p] = 0 /\ http'[p] = 202 )
           => /\ jobs'[reqId[p]].status = "PROCESSING"
              /\ run'[p].calls = <<>>
              /\ ~result'[p].done
              /\ pc'[p] \in RunPcs
        /\ ( kind'[p] = "post" /\ http'[p] # 202 )
           => run'[p].calls = <<>> ]_vars

C16_Witness ==
  \E p \in Procs : \E q \in Procs :
    /\ kind[p] = "post" /\ http[p] = 202 /\ pc[p] = "secretary"
    /\ run[p].calls = <<"secretary">>
    /\ jobs[reqId[p]].status = "PROCESSING"
    /\ kind[q] = "post" /\ reqId[q] = "ghost" /\ http[q] = 404

ProgressStages(ev) ==
  LET pe == SelectSeq(ev, LAMBDA e : e.name = "progress")
  IN [i \in 1..Len(pe) |-> pe[i].stage]

\* C17: the progress events written to a subscriber's stream are, in order,
\* the stages the pipeline of its run reported so far; the events the
\* streaming generator has yielded are, in order, the first events its
\* pipeline reported, and all of them once it has returned.
C17_EventsInProductionOrder ==
  \A p \in Procs :
    /\ (kind[p] = "stream" /\ pc[p] # "done")
         => ProgressStages(events[p]) = produced[p]
    /\ gen[p].pc # "none"
         => /\ ProgressStages(events[p]) = produced[p]
            /\ Len(gen[p].yielded) <= Len(produced[p])
            /\ ProgressStages(gen[p].yielded)
                 = SubSeq(produced[p], 1, Len(gen[p].yielded))
            /\ gen[p].pc = "returned"
                 => /\ result[p].done
                    /\ ProgressStages(gen[p].yielded) = produced[p]

C17_Witness ==
  \E p \in Procs :
    /\ gen[p].pc = "yielding"
    /\ gen[p].lastIndex >= 2
    /\ Len(events[p]) >= gen[p].lastIndex + 3
    /\ pc[p] = "feedback"

\* C18: a run that failed with the error of a Validate or Revise call had no
\* attempt left when the error was raised: the call was made on the last
\* attempt, after the errors and failed results of all the attempts before.
C18_StageErrorConsumesAttempt ==
  \A p \in Procs :
    ( /\ result[p].done
      /\ result[p].error \in {"err:qa", "err:feedback"} )
    => run[p].attempt = MAX_QA_RETRIES

\* C19: a run calls Normalize, Specify and Render at most once each; when it
\* finishes after one of them raised an error (and the boss did not
\* intervene) that stage was its last call, its result is a failure with
\* that error, and the job stored right after is FACTORY_FAILED with that
\* error as its failure reason.
C19_FatalEarlyStages ==
  [][ \A p \in Procs :
        /\ \A st \in {"secretary", "builder", "template"} :
             Count(run'[p].calls, st) <= 1
        /\ \A st \in {"secretary", "builder", "template"} :
             ( /\ Finishes(p)
               /\ result[p].error = "err:" \o st
               /\ ~aux[p].bossDuring )
             => /\ run[p].calls[Len(run[p].calls)] = st
                /\ ~result[p].success
                /\ jobs'[reqId[p]].status = "FACTORY_FAILED"
                /\ jobs'[reqId[p]].failure_reason = "err:" \o st ]_vars

\* C20: once the boss has, during a run, moved the stored job to a status
\* of the boss's own (APPROVED or REJECTED, so the job is no longer
\* PROCESSING), that run invokes no further stage: no step of it adds a
\* stage call.
C20_CancelledAtStageBoundary ==
  [][ \A p \in Procs :
        ( /\ InFlight(p)
          /\ aux[p].bossDuring
          /\ jobs[reqId[p]].status \in {"APPROVED", "REJECTED"} )
        => Len(run'[p].calls) <= Len(run[p].calls) ]_vars

\* C21: a handler whose start transition resolves when the stored job is no
\* longer DRAFT (another caller has already moved it) backs off: in that step
\* it neither calls the generator nor writes the store, on the start path and
\* on the subscribe path alike.
C21_BackOffWhenAlreadyMoved ==
  [][ \A p \in Procs :
        ( /\ pc[p] \in {"post_transition", "stream_transition"}
          /\ pc'[p] # pc[p]
          /\ jobs[reqId[p]].status # "DRAFT" )
        => /\ ~aux'[p].ranGenerate
           /\ pc'[p] \notin RunPcs
           /\ jobs' = jobs ]_vars

\* C22: a run that waits for a stage call eventually stops waiting for it:
\* the call answers, or its bounded wait turns it into a failure.
C22_StageCallsAreBounded ==
  \A p \in Procs :
    \A st \in StagePcs : (pc[p] = st) ~> (pc[p] # st)

StageOrder(n) ==
  [i \in 1..n |-> IF i = 1 THEN "secretary"
                  ELSE IF i = 2 THEN "builder"
                  ELSE IF i = 3 THEN "template"
                  ELSE IF i % 2 = 0 THEN "qa" ELSE "feedback"]

C24_OneAttemptPerValidate ==
  \A p \in Procs :
    result[p].done =>
      LET h == result[p].revisionHistory
      IN /\ Len(h) = Count(run[p].calls, "qa")
         /\ \A i \in 1..Len(h) : h[i].attempt = i

TerminalStages == {"complete", "failed"}

\* C25: once a pipeline run has returned, the events it gave its sink hold
\* exactly one terminal event, it is the last of them, and it is `complete`
\* exactly when the returned result is a success; before it returns the
\* sink has been given no terminal event.
C25_OneTerminalProgressEvent ==
  \A p \in Procs :
    kind[p] = "pipe" =>
      LET st == ProgressStages(events[p])
          t == {i \in 1..Len(st) : st[i] \in TerminalStages}
      IN IF result[p].done
         THEN /\ t = {Len(st)}
              /\ Len(st) >= 1
              /\ (st[Len(st)] = "complete") <=> result[p].success
         ELSE t = {}

C25_Witness ==
  \E p \in Procs :
    LET st == ProgressStages(events[p])
    IN /\ kind[p] = "pipe" /\ result[p].done /\ ~result[p].success
       /\ result[p].error = "err:feedback"
       /\ Len(st) >= 10
       /\ st[Len(st)] = "failed"

\* C26: every Validate call is given the current artifact, which is the
\* rendered one after no Revise and the k-th Revise output after k of them;
\* a run that returns from the quality-gate loop, passed or exhausted,
\* returns the artifact its last Validate call was given, and no returned
\* result carries any other artifact.
C26_ReturnedArtifactIsLastValidated ==
  \A p \in Procs :
    /\ pc[p] = "qa"
         => /\ run[p].evaluated = run[p].toolHtml
            /\ run[p].toolHtml = <<p, Count(run[p].calls, "feedback")>>
    /\ (LoopReturned(p) /\ Count(run[p].calls, "qa") >= 1)
         => /\ result[p].toolHtml # NoHtml
            /\ result[p].toolHtml = run[p].evaluated
            /\ result[p].toolHtml = <<p, Count(run[p].calls, "feedback")>>
    /\ (result[p].done /\ result[p].toolHtml # NoHtml)
         => result[p].toolHtml = run[p].evaluated

C26_Witness ==
  \E p \in Procs :
    /\ LoopReturned(p)
    /\ ~result[p].success
    /\ Count(run[p].calls, "feedback") = 2
    /\ result[p].toolHtml = <<p, 2>>
    /\ run[p].evaluated = <<p, 2>>

\* C27: in the history of a run that returned from the quality-gate loop,
\* the last attempt is recorded as passed exactly when the run succeeded, and
\* no earlier attempt is recorded as passed.
C27_RecordedPassedAgreesWithGate ==
  \A p \in Procs :
    LET h == result[p].revisionHistory
        n == Len(h)
    IN (LoopReturned(p) /\ n >= 1)
       => /\ result[p].success <=> h[n].passed
          /\ \A i \in 1..(n - 1) : ~h[i].passed

\* a Validate response that is JSON with a verdict, an overall score in
\* 0..100 and the criteria scores
WellFormed(raw) ==
  /\ raw.json
  /\ raw.result # ""
  /\ raw.score \in 0..100
  /\ DOMAIN raw.criteria_scores = Criteria

\* C28: whenever a run waits for Validate, every well-formed response the QA
\* model may give, whatever its score, is one runQA accepts as a result
\* (and so is recorded and gated) instead of throwing.
C28_AnyScoreIsAccepted ==
  \A p \in Procs :
    pc[p] = "qa" => \A raw \in qaInputs : WellFormed(raw) => QAParses(raw)

\* C29: whenever a subscription to an existing job sends its terminal event,
\* the stored job agrees with it at that moment: READY_FOR_REVIEW when the
\* event is `complete`, FACTORY_FAILED when it is `failed`.
C29_TerminalEventAgreesWithStore ==
  [][ \A p \in Procs :
        ( /\ kind'[p] = "stream"
          /\ reqId'[p] \in DOMAIN jobs'
          /\ Len(events'[p]) = Len(events[p]) + 1
          /\ events'[p][Len(events'[p])].name \in {"complete", "failed"} )
        => jobs'[reqId'[p]].status =
             IF events'[p][Len(events'[p])].name = "complete"
             THEN "READY_FOR_REVIEW" ELSE "FACTORY_FAILED" ]_vars

\* what the generator has yielded so far is the first lastIndex events the
\* run produced, in production order, each once
YieldedIsPrefix(p) ==
  /\ gen[p].lastIndex = Len(gen[p].yielded)
  /\ gen[p].lastIndex <= Len(events[p])
  /\ gen[p].yielded = SubSeq(events[p], 1, gen[p].lastIndex)
  /\ ProgressStages(events[p]) = produced[p]

\* C30: runToolPipelineStreaming yields the run's progress events in order,
\* each exactly once; when it has returned the run is over (its PipelineResult
\* is there to return) and every event the run produced has been yielded; and
\* once the run is over the generator does return.
C30_StreamingYieldsAllThenReturns ==
  /\ [](\A p \in Procs :
          gen[p].pc # "none" =>
            /\ YieldedIsPrefix(p)
            /\ gen[p].pc = "returned" =>
                 /\ result[p].done /\ pc[p] = "returned"
                 /\ gen[p].yielded = events[p])
  /\ \A p \in Procs :
       (gen[p].pc # "none" /\ result[p].done) ~> (gen[p].pc = "returned")

C30_Witness ==
  \E p \in Procs :
    /\ gen[p].pc = "returned"
    /\ result[p].done /\ result[p].revisionCount > 0
    /\ Len(gen[p].yielded) > 5
    /\ gen[p].yielded = events[p]
    /\ ProgressStages(gen[p].yielded)[Len(gen[p].yielded)] \in TerminalStages

====
